---- MODULE Spec2Model ----
(***************************************************************************)
(* ReminderBot: the reminder draft wizard (processors/reminder_processor,  *)
(* menus) and the persisted reminder life cycle (db/models, db/ctx).       *)
(*                                                                         *)
(* Time is a count of seconds since midnight of day 0; a datetime is that  *)
(* count (microseconds are not modelled).  Karma is a Float column; it is  *)
(* kept in tenths (10 = 1.0) so that +1 and -0.1 are integer steps.        *)
(***************************************************************************)
EXTENDS Integers, Sequences, FiniteSets, TLC

VARIABLES now,        \* datetime.now() / the cache timer, in seconds
          cache,      \* Reminder.cache: the TTLCache of drafts, in link order
          reminder,   \* table "reminder": row i has id i
          chat_user,  \* table "chat_user": row i has id i
          msgs,       \* msgs[i]: sent notifications of reminder i that still show buttons
          sent,       \* notifications sent so far
          hung,       \* the update handler thread is inside a loop that never ends
          running,    \* calls of ReminderMsg.handle that have begun and not returned
          tally,      \* tally[c]: DONE and snooze taps handled for the reminders of chat c
          lastOp      \* the handler that ran last, its subject and its outcome

vars == <<now, cache, reminder, chat_user, msgs, sent, hung, running, tally, lastOp>>

-----------------------------------------------------------------------------
(* Bounds of the model *)

MaxClock == 2       \* the clock stops after this many steps of ClockStep
MaxReminders == 2   \* rows of table "reminder"
MaxSent == 3        \* notifications the scan sends in all
MaxSleep == 2       \* steps of the clock while drafts are kept
MaxRunning == 2     \* calls of ReminderMsg.handle that have not returned
MaxPieces == 4      \* parts of a text for parsePeriod
MaxTokens == 3      \* <amount><unit> tokens of a period text
MaxDays20 == 2      \* steps of twenty days of the clock

(* Program constants *)

TTL == 3600           \* TTLCache(100000, 3600): seconds
MaxSize == 100000     \* TTLCache(100000, 3600): entries
KarmaDefault == 10    \* karma = Column(Float, default=1)
KarmaUp == 10         \* chat_user.karma += 1
KarmaDown == 1        \* chat_user.karma -= 0.1
RetryHours == 1       \* reminder.date += timedelta(hours=1)

ClockStep == 15 * 60
\* Optional values: None is the empty sequence, Some(v) holds v
None == <<>>
Some(v) == <<v>>
The(o) == o[1]

-----------------------------------------------------------------------------
(* dateutil.relativedelta, as far as the program uses it: the relative    *)
(* fields that parsePeriod and the snooze buttons can set.                 *)

RelFields == <<"years", "months", "days", "hours", "minutes">>

relativedelta(y, mo, d, h, mi) ==
    \* the constructor ends in _fix(): carry minutes -> hours -> days, months -> years
    LET h1 == h + (mi \div 60)
        d1 == d + (h1 \div 24)
    IN  [years |-> y + (mo \div 12), months |-> mo % 12, days |-> d1,
         hours |-> h1 % 24, minutes |-> mi % 60]

RelAdd(a, b) ==
    relativedelta(a.years + b.years, a.months + b.months, a.days + b.days,
                  a.hours + b.hours, a.minutes + b.minutes)

RelMul(a, n) ==
    relativedelta(a.years * n, a.months * n, a.days * n, a.hours * n, a.minutes * n)

\* the calendar: day 0 is 1 January of year 0; leap days are not modelled
MonthDays == <<31, 28, 31, 30, 31, 30, 31, 31, 30, 31, 30, 31>>

RECURSIVE DaysBefore(_)
DaysBefore(m) == IF m = 1 THEN 0 ELSE DaysBefore(m - 1) + MonthDays[m - 1]

\* datetime(year, month, day) as the number of its day
DayNumber(y, m, d) == y * 365 + DaysBefore(m) + d - 1

\* the day of the year, from 0
DayOfYear(day) == day % 365

\* the month a day falls in
MonthOf(day) ==
    CHOOSE m \in 1..12 :
      DaysBefore(m) <= DayOfYear(day) /\ DayOfYear(day) < DaysBefore(m) + MonthDays[m]

\* relativedelta.__radd__: years and months first, the day clipped to the
\* length of the month reached, then the timedelta of days, hours and minutes
AddDelta(t, d) ==
    IF d.years = 0 /\ d.months = 0
    THEN t + d.days * 86400 + d.hours * 3600 + d.minutes * 60
    ELSE LET day == t \div 86400
             m == MonthOf(day)
             dom == DayOfYear(day) - DaysBefore(m) + 1
             y2 == (day \div 365) + d.years + ((m - 1 + d.months) \div 12)
             m2 == ((m - 1 + d.months) % 12) + 1
             d2 == IF dom > MonthDays[m2] THEN MonthDays[m2] ELSE dom
         IN  DayNumber(y2, m2, d2) * 86400 + (t % 86400)
               + d.days * 86400 + d.hours * 3600 + d.minutes * 60

\* '{:+g}': six significant digits, round half even
RECURSIVE GScale(_, _)
GScale(v, p) == IF v \div p < 1000000 THEN p ELSE GScale(v, p * 10)

FormatG(v) ==
    LET p == GScale(v, 1)
        q == v \div p
        r == v % p
    IN  IF 2 * r > p \/ (2 * r = p /\ q % 2 = 1) THEN (q + 1) * p ELSE q * p

\* str(period): "None", or repr(relativedelta) which lists the non-zero fields
PeriodStr(p) ==
    IF p = None THEN [ctor |-> "None", args |-> <<>>]
    ELSE LET d == The(p)
             shown == SelectSeq(RelFields, LAMBDA f : d[f] # 0)
         IN  [ctor |-> "relativedelta",
              args |-> [i \in 1..Len(shown) |->
                          [attr |-> shown[i], value |-> FormatG(d[shown[i]])]]]

\* exec(f"delta = {self.period}"): evaluate the stored text
ArgOf(s, f) ==
    LET hits == SelectSeq(s.args, LAMBDA a : a.attr = f)
    IN  IF hits = <<>> THEN 0 ELSE hits[1].value

ExecPeriod(s) ==
    IF s.ctor = "None" THEN None
    ELSE Some(relativedelta(ArgOf(s, "years"), ArgOf(s, "months"), ArgOf(s, "days"),
                            ArgOf(s, "hours"), ArgOf(s, "minutes")))

-----------------------------------------------------------------------------
(* Tables *)

\* The updates come from private chats: chat i is the chat of user i
Chats == {1, 2}
Update(i) == [user |-> i, chat |-> i]
Updates == {Update(i) : i \in Chats}

\* the chat that makes new reminders; the reminder of chat 1 is an old one
Solo == {Update(2)}

Ids == 1..Len(reminder)

\* ChatUser.get_or_create: <<table, id>>
ChatUserIndex(tbl, u) ==
    {i \in 1..Len(tbl) : tbl[i].user_id = u.user /\ tbl[i].chat_id = u.chat}

ChatUserGetOrCreate(tbl, u) ==
    IF ChatUserIndex(tbl, u) # {}
    THEN <<tbl, CHOOSE i \in ChatUserIndex(tbl, u) : TRUE>>
    ELSE <<Append(tbl, [user_id |-> u.user, chat_id |-> u.chat, karma |-> KarmaDefault]),
           Len(tbl) + 1>>

\* the row with the time of the save in place of the date of the draft
NewRowNow(obj, owner) ==
    [text |-> The(obj.name),
     create_time |-> now,
     remind_time_planned |-> now,
     remind_time_real |-> now,
     period |-> PeriodStr(obj.period),
     status |-> 1,
     chat_user |-> owner]

\* Reminder.create: the row made from a draft object
NewRow(obj, owner) ==
    [text |-> The(obj.name),
     create_time |-> The(obj.date),
     remind_time_planned |-> The(obj.date),
     remind_time_real |-> The(obj.date),
     period |-> PeriodStr(obj.period),
     status |-> 1,
     chat_user |-> owner]

\* the query without the filter on status
GetAllDue == {i \in Ids : reminder[i].remind_time_real <= now}

\* Reminder.get_actual_reminders
GetActualReminders ==
    {i \in Ids : reminder[i].status = 1 /\ reminder[i].remind_time_real <= now}

\* the query without its filter: the first chat_user
GetChatUserFirst(i) == 1

\* Reminder.get_chat_user
GetChatUser(i) == reminder[i].chat_user

-----------------------------------------------------------------------------
(* Life cycle of a row *)

\* stop that ends only a reminder without period
StopOneOff(row) == IF row.period = PeriodStr(None) THEN [row EXCEPT !.status = 0] ELSE row

\* Reminder.stop
Stop(row) == [row EXCEPT !.status = 0]

\* an if in place of the while: the period is added once
RewindOnce(row, delta) ==
    IF row.remind_time_planned < now
    THEN LET t == AddDelta(row.remind_time_planned, delta)
         IN  [row EXCEPT !.remind_time_planned = t, !.remind_time_real = t]
    ELSE row

\* the while loop of rewind
RECURSIVE RewindLoop(_, _)
RewindLoop(row, delta) ==
    IF row.remind_time_planned < now
    THEN LET t == AddDelta(row.remind_time_planned, delta)
         IN  RewindLoop([row EXCEPT !.remind_time_planned = t, !.remind_time_real = t],
                        delta)
    ELSE row

\* the loop never ends: the time is overdue and adding delta does not move it
RewindDiverges(row) ==
    LET delta == ExecPeriod(row.period)
    IN  /\ delta # None
        /\ row.remind_time_planned < now
        /\ AddDelta(row.remind_time_planned, The(delta)) = row.remind_time_planned

\* rewind that leaves a reminder without period as it is
RewindNoStop(row) ==
    LET delta == ExecPeriod(row.period)
    IN  IF delta = None THEN row ELSE RewindLoop(row, The(delta))

\* Reminder.rewind
Rewind(row) ==
    LET delta == ExecPeriod(row.period)
    IN  IF delta = None THEN Stop(row) ELSE RewindLoop(row, The(delta))

\* snooze that counts from the old time instead of now
SnoozeRowFromReal(row, delta) ==
    [row EXCEPT !.remind_time_real = AddDelta(row.remind_time_real, delta)]

\* snooze that makes the reminder active again
SnoozeRowReactivates(row, delta) ==
    [row EXCEPT !.remind_time_real = AddDelta(now, delta), !.status = 1]

\* Reminder.snooze, the row part
SnoozeRow(row, delta) == [row EXCEPT !.remind_time_real = AddDelta(now, delta)]

\* karma of the owner changed by d
KarmaAdd(tbl, owner, d) == [tbl EXCEPT ![owner].karma = @ + d]

Op(op, id, out) == [op |-> op, id |-> id, out |-> out]

Actions == {"DONE", "SKIP", "REMOVE", "SNOOZE15", "SNOOZE60"}

SnoozeMinutes(action) == IF action = "SNOOZE15" THEN 15 ELSE 60

\* a skip that costs what a snooze costs
KarmaDeltaSkipCosts(action) ==
    CASE action = "DONE" -> KarmaUp
      [] action \in {"SNOOZE15", "SNOOZE60", "SKIP"} -> 0 - KarmaDown
      [] OTHER -> 0

\* the change of karma the action asks for
KarmaDelta(action) ==
    CASE action = "DONE" -> KarmaUp
      [] action \in {"SNOOZE15", "SNOOZE60"} -> 0 - KarmaDown
      [] OTHER -> 0

\* the row after the action
Transition(row, action) ==
    CASE action \in {"DONE", "SKIP"} -> Rewind(row)
      [] action = "REMOVE" -> Stop(row)
      [] OTHER -> SnoozeRow(row, relativedelta(0, 0, 0, 0, SnoozeMinutes(action)))

\* one more DONE or snooze handled for chat c
Count(t, c, action) ==
    CASE action = "DONE" -> [t EXCEPT ![c].done = @ + 1]
      [] action \in {"SNOOZE15", "SNOOZE60"} -> [t EXCEPT ![c].snoozed = @ + 1]
      [] OTHER -> t

-----------------------------------------------------------------------------
(* Handlers of the persisted reminders *)

\* ReminderMsg.handle: a tap on a button of a notification of reminder i;
\* resolve_markup then takes the buttons off that notification
ReminderMsgHandle(i, action) ==
    /\ ~hung
    /\ msgs[i] > 0
    /\ IF action \in {"DONE", "SKIP"} /\ RewindDiverges(reminder[i])
       THEN /\ hung' = TRUE
            /\ lastOp' = Op(action, i, "hung")
            /\ UNCHANGED <<reminder, chat_user, msgs, tally>>
       ELSE /\ reminder' = [reminder EXCEPT ![i] = Transition(@, action)]
            /\ chat_user' = KarmaAdd(chat_user, GetChatUser(i), KarmaDelta(action))
            /\ tally' = Count(tally, chat_user[GetChatUser(i)].chat_id, action)
            /\ msgs' = [msgs EXCEPT ![i] = @ - 1]
            /\ lastOp' = Op(action, i, "ok")
            /\ UNCHANGED hung
    /\ UNCHANGED <<now, cache, sent, running>>

\* a send followed by succeeded_reminder, as DBContext has it: the reminder
\* is stopped or moved on by its period as soon as it is sent
HandleFirstAdvances(row) ==
    IF ExecPeriod(row.period) = None THEN [row EXCEPT !.status = 0]
    ELSE [row EXCEPT !.remind_time_real = AddDelta(@, The(ExecPeriod(row.period)))]

\* ReminderMsg.handle_first: the notification is sent, the row is only read
HandleFirst(row) == row

\* a failed send that counts the hour from now
FailedReminderFromNow(row) == [row EXCEPT !.remind_time_real = now + RetryHours * 3600]

\* DBContext.failed_reminder; its column "date" is the time the due query reads
FailedReminder(row) == [row EXCEPT !.remind_time_real = @ + RetryHours * 3600]

\* one scan of the due reminders: ReminderMsg.handle_first sends a notification
\* with buttons for each of them; the sends to the reminders in F fail
Tick(F) ==
    /\ F \subseteq GetActualReminders
    /\ sent + Cardinality(GetActualReminders \ F) <= MaxSent
    /\ reminder' = [i \in Ids |->
                      IF i \in F THEN FailedReminder(reminder[i])
                      ELSE IF i \in GetActualReminders THEN HandleFirst(reminder[i])
                      ELSE reminder[i]]
    /\ msgs' = [i \in Ids |-> IF i \in GetActualReminders \ F THEN msgs[i] + 1 ELSE msgs[i]]
    /\ sent' = sent + Cardinality(GetActualReminders \ F)
    /\ lastOp' = Op("TICK", 0, "ok")
    /\ UNCHANGED <<now, cache, chat_user, hung, running, tally>>

\* Reminder.create
Create(obj, u) ==
    LET cu == ChatUserGetOrCreate(chat_user, u)
    IN  /\ reminder' = Append(reminder, NewRow(obj, cu[2]))
        /\ chat_user' = cu[1]
        /\ msgs' = Append(msgs, 0)

\* the draft objects that Reminder.create is given in the life cycle model
LifeNames == {<<"a">>}
LifeDates == {0}
LifePeriods == {None,
                Some(relativedelta(0, 0, 0, 0, 0)),
                Some(relativedelta(0, 0, 0, 0, 15)),
                Some(relativedelta(0, 0, 0, 0, 45))}
LifeObjs == [name : {Some(n) : n \in LifeNames}, date : {Some(d) : d \in LifeDates},
             period : LifePeriods, waiting_for : {"none"}]

CreateReminder(obj, u) ==
    /\ ~hung
    /\ Len(reminder) < MaxReminders
    /\ Create(obj, u)
    /\ lastOp' = Op("CREATE", Len(reminder) + 1, "ok")
    /\ UNCHANGED <<now, cache, sent, hung, running, tally>>

\* time passes
Clock ==
    /\ now < MaxClock * ClockStep
    /\ now' = now + ClockStep
    /\ lastOp' = Op("CLOCK", 0, "ok")
    /\ UNCHANGED <<cache, reminder, chat_user, msgs, sent, hung, running, tally>>

\* bot.db outlives the process: at start it holds what earlier runs left, here
\* one reminder of user 1 that was removed; the draft cache starts empty
OldObj == [name |-> Some(<<"o">>), date |-> Some(0), period |-> None, waiting_for |-> "none"]

Init ==
    /\ now = 0
    /\ cache = <<>>
    /\ reminder = <<Stop(NewRow(OldObj, 1))>>
    /\ chat_user = ChatUserGetOrCreate(<<>>, Update(1))[1]
    /\ msgs = <<0>>
    /\ sent = 0
    /\ hung = FALSE
    /\ running = <<>>
    /\ tally = [c \in Chats |-> [done |-> 0, snoozed |-> 0]]
    /\ lastOp = Op("INIT", 0, "ok")

Next ==
    \/ \E obj \in LifeObjs, u \in Solo : CreateReminder(obj, u)
    \/ \E F \in SUBSET Ids : Tick(F)
    \/ \E i \in Ids, action \in Actions : ReminderMsgHandle(i, action)
    \/ Clock

Spec == Init /\ [][Next]_vars

\* the life cycle over months: reminders made on 31 January, the clock moves
\* by twenty days
MonthStart == DayNumber(0, 1, 31) * 86400
MonthStep == 20 * 86400
MonthObjs == [name : {Some(n) : n \in LifeNames}, date : {Some(MonthStart)},
              period : {Some(relativedelta(0, 1, 0, 0, 0)), Some(relativedelta(0, 0, 7, 0, 0))},
              waiting_for : {"none"}]

InitMonths ==
    /\ now = MonthStart
    /\ cache = <<>>
    /\ reminder = <<Stop(NewRow(OldObj, 1))>>
    /\ chat_user = ChatUserGetOrCreate(<<>>, Update(1))[1]
    /\ msgs = <<0>>
    /\ sent = 0
    /\ hung = FALSE
    /\ running = <<>>
    /\ tally = [c \in Chats |-> [done |-> 0, snoozed |-> 0]]
    /\ lastOp = Op("INIT", 0, "ok")

Days20 ==
    /\ now < MonthStart + MaxDays20 * MonthStep
    /\ now' = now + MonthStep
    /\ lastOp' = Op("CLOCK", 0, "ok")
    /\ UNCHANGED <<cache, reminder, chat_user, msgs, sent, hung, running, tally>>

NextMonths ==
    \/ \E obj \in MonthObjs, u \in Solo : CreateReminder(obj, u)
    \/ \E F \in SUBSET Ids : Tick(F)
    \/ \E i \in Ids, action \in Actions : ReminderMsgHandle(i, action)
    \/ Days20

SpecMonths == InitMonths /\ [][NextMonths]_vars

-----------------------------------------------------------------------------
(* ReminderMsg.handle step by step: each access to bot.db is a session of its
   own, so a call is a read of the row, a commit of the row with a read of the
   karma, and a commit of the karma *)

\* any number of calls at a time, as with handlers that run in threads of their own
ManyAtATime == TRUE

\* Dispatcher: the handlers are added without run_async, so the one thread of
\* the dispatcher runs a handler to its end before it takes the next update
DispatcherFree == running = <<>>

\* Session.commit of a changed object: the UPDATE writes the attributes that
\* were assigned a new value; cur is the row in bot.db, snap the row as loaded
Commit(cur, snap, new) ==
    [f \in DOMAIN cur |-> IF new[f] # snap[f] THEN new[f] ELSE cur[f]]

Without(seq, k) == [j \in 1..(Len(seq) - 1) |-> IF j < k THEN seq[j] ELSE seq[j + 1]]

\* models.Reminder.get: the row is loaded
HandleGet(i, action) ==
    /\ ~hung
    /\ msgs[i] > 0
    /\ DispatcherFree
    /\ Len(running) < MaxRunning
    /\ running' = Append(running, [id |-> i, action |-> action, row |-> reminder[i],
                                   pc |-> "got", karma |-> 0])
    /\ lastOp' = Op("GET", i, "ok")
    /\ UNCHANGED <<now, cache, reminder, chat_user, msgs, sent, hung, tally>>

\* success, skip, stop or snooze up to get_chat_user: the row is committed and
\* the chat_user is loaded
HandleRow(k) ==
    LET call == running[k]
    IN  /\ ~hung
        /\ call.pc = "got"
        /\ IF call.action \in {"DONE", "SKIP"} /\ RewindDiverges(call.row)
           THEN /\ hung' = TRUE
                /\ lastOp' = Op(call.action, call.id, "hung")
                /\ UNCHANGED <<reminder, running>>
           ELSE /\ reminder' = [reminder EXCEPT ![call.id] =
                                  Commit(@, call.row, Transition(call.row, call.action))]
                /\ running' = [running EXCEPT ![k].pc = "row",
                                               ![k].karma = chat_user[GetChatUser(call.id)].karma]
                /\ lastOp' = Op("ROW", call.id, "ok")
                /\ UNCHANGED hung
        /\ UNCHANGED <<now, cache, chat_user, msgs, sent, tally>>

\* the karma that was loaded, changed, is committed; resolve_markup takes the
\* buttons off the notification and the handler returns
HandleEnd(k) ==
    LET call == running[k]
        owner == GetChatUser(call.id)
    IN  /\ ~hung
        /\ call.pc = "row"
        /\ chat_user' = IF KarmaDelta(call.action) = 0 THEN chat_user
                         ELSE [chat_user EXCEPT
                                 ![owner].karma = call.karma + KarmaDelta(call.action)]
        /\ tally' = Count(tally, chat_user[owner].chat_id, call.action)
        /\ msgs' = [msgs EXCEPT ![call.id] = IF @ > 0 THEN @ - 1 ELSE 0]
        /\ running' = Without(running, k)
        /\ lastOp' = Op(call.action, call.id, "ok")
        /\ UNCHANGED <<now, cache, reminder, sent, hung>>

\* the taps step by step; every send of the scan succeeds
NextSteps ==
    \/ \E obj \in LifeObjs, u \in Solo : CreateReminder(obj, u)
    \/ Tick({})
    \/ \E i \in Ids, action \in Actions : HandleGet(i, action)
    \/ \E k \in 1..Len(running) : HandleRow(k)
    \/ \E k \in 1..Len(running) : HandleEnd(k)
    \/ Clock

SpecSteps == Init /\ [][NextSteps]_vars

-----------------------------------------------------------------------------
(* Texts: sequences of characters *)

Digits == {"0", "1", "2", "3", "4", "5", "6", "7", "8", "9"}

DigitVal(c) ==
    CASE c = "0" -> 0 [] c = "1" -> 1 [] c = "2" -> 2 [] c = "3" -> 3 [] c = "4" -> 4
      [] c = "5" -> 5 [] c = "6" -> 6 [] c = "7" -> 7 [] c = "8" -> 8 [] c = "9" -> 9

\* str.lower() on the letters the texts of the model use
Lower(c) ==
    CASE c = "H" -> "h" [] c = "D" -> "d" [] c = "M" -> "m" [] c = "W" -> "w"
      [] c = "Y" -> "y" [] OTHER -> c

\* text.replace(" ", "")
NoSpaces(t) == SelectSeq(t, LAMBDA c : c # " ")

\* int() of a run of digits
RECURSIVE IntOf(_)
IntOf(t) == IF t = <<>> THEN 0 ELSE 10 * IntOf(SubSeq(t, 1, Len(t) - 1)) + DigitVal(t[Len(t)])

\* the end of the longest run from position i whose characters are digits (or, for
\* digit = FALSE, are not): the position after it
RECURSIVE RunEnd(_, _, _)
RunEnd(t, i, digit) ==
    IF i <= Len(t) /\ ((t[i] \in Digits) = digit) THEN RunEnd(t, i + 1, digit) ELSE i

\* re.findall(r"(\d+[^\d]+)", t) from position i, each match split by
\* r"(\d+)([^\d]+)": the digit runs that a run of other characters follows
RECURSIVE FindAll(_, _)
FindAll(t, i) ==
    LET p == RunEnd(t, i, FALSE)   \* the next digit
        q == RunEnd(t, p, TRUE)    \* the end of its run
        r == RunEnd(t, q, FALSE)   \* the end of the run after it
    IN  IF p > Len(t) \/ q > Len(t) THEN <<>>
        ELSE <<[amount |-> IntOf(SubSeq(t, p, q - 1)), partType |-> SubSeq(t, q, r - 1)]>>
               \o FindAll(t, r)

\* re.match(r"(\d+[^\d]+)+", t): t begins with digits that another character follows
MatchMany(t) ==
    /\ t # <<>>
    /\ t[1] \in Digits
    /\ RunEnd(t, 1, TRUE) <= Len(t)

\* Reminder.date_markup
MarkupKeys == {<<"y">>, <<"m", "o", "n">>, <<"w">>, <<"d">>, <<"h">>, <<"m", "i", "n">>}

date_markup(k) ==
    CASE k = <<"y">> -> relativedelta(1, 0, 0, 0, 0)
      [] k = <<"m", "o", "n">> -> relativedelta(0, 1, 0, 0, 0)
      [] k = <<"w">> -> relativedelta(0, 0, 7, 0, 0)
      [] k = <<"d">> -> relativedelta(0, 0, 1, 0, 0)
      [] k = <<"h">> -> relativedelta(0, 0, 0, 1, 0)
      [] k = <<"m", "i", "n">> -> relativedelta(0, 0, 0, 0, 1)

\* a loop that assigns where parsePeriod adds: result = scale * amount
SumPartsLast(parts, result) ==
    IF parts = <<>> THEN result
    ELSE RelMul(date_markup(parts[Len(parts)].partType), parts[Len(parts)].amount)

\* the for loop of parsePeriod: result += scale * amount
RECURSIVE SumParts(_, _)
SumParts(parts, result) ==
    IF parts = <<>> THEN result
    ELSE SumParts(Tail(parts),
                  RelAdd(result, RelMul(date_markup(parts[1].partType), parts[1].amount)))

\* Reminder.parsePeriod: the period, or the exception it raises
parsePeriod(text) ==
    LET t == NoSpaces([i \in 1..Len(text) |-> Lower(text[i])])
        parts == FindAll(t, 1)
    IN  IF ~MatchMany(t) THEN [err |-> "ValueError", val |-> None]
        ELSE IF \E i \in 1..Len(parts) : parts[i].partType \notin MarkupKeys
        THEN [err |-> "KeyError", val |-> None]
        ELSE [err |-> "ok", val |-> Some(SumParts(parts, relativedelta(0, 0, 0, 0, 0)))]

\* str.split(":")
RECURSIVE Split(_)
Split(t) ==
    LET colons == {i \in 1..Len(t) : t[i] = ":"}
    IN  IF colons = {} THEN <<t>>
        ELSE LET i == CHOOSE j \in colons : \A k \in colons : j <= k
             IN  <<SubSeq(t, 1, i - 1)>> \o Split(SubSeq(t, i + 1, Len(t)))

\* Reminder.parseTime and the unpacking into hour, minute, second
parseTime(text) ==
    LET parts == Split(NoSpaces(text))
        isInt(x) == x # <<>> /\ \A i \in 1..Len(x) : x[i] \in Digits
    IN  IF (\E i \in 1..Len(parts) : ~isInt(parts[i])) \/ Len(parts) > 3
        THEN [err |-> "ValueError", val |-> <<>>]
        ELSE [err |-> "ok",
              val |-> [i \in 1..3 |-> IF i <= Len(parts) THEN IntOf(parts[i]) ELSE 0]]

\* datetime.replace(hour, minute, second): the range check of datetime
ReplaceOk(h, m, sec) == h <= 23 /\ m <= 59 /\ sec <= 59

Replace(t, h, m, sec) == (t \div 86400) * 86400 + h * 3600 + m * 60 + sec

-----------------------------------------------------------------------------
(* The draft (processors.reminder_processor.Reminder) and its cache *)

\* the fields __init__ sets
EmptyDraft == [waiting_for |-> "none", name |-> None, date |-> None, period |-> None]

\* TTLCache: an entry is visible until the timer has passed its expiry
Live(e) == ~(e.expire < now)

\* TTLCache.expire
Expire(c) == SelectSeq(c, Live)

\* Reminder.get_current: the draft of the chat, if there is one
get_current(c, k) ==
    LET hits == SelectSeq(c, LAMBDA e : e.key = k /\ Live(e))
    IN  IF hits = <<>> THEN None ELSE Some(hits[1].obj)

\* TTLCache.__setitem__: cache[k] = obj
SetItem(c, k, obj) ==
    LET c1 == Expire(c)
        has == \E i \in 1..Len(c1) : c1[i].key = k
        c2 == IF ~has /\ Len(c1) >= MaxSize THEN Tail(c1) ELSE c1
    IN  Append(SelectSeq(c2, LAMBDA e : e.key # k),
               [key |-> k, expire |-> now + TTL, obj |-> obj])

\* a pop that returns the draft and leaves it in the cache
PopKeeps(c, k) == c

\* Reminder.pop_current: the cache after cache.pop(cache_id, None)
pop_current(c, k) ==
    IF get_current(c, k) = None THEN c ELSE SelectSeq(c, LAMBDA e : e.key # k)

\* Reminder.pop_current: the value cache.pop(cache_id, None) returns, the
\* visible draft of the key or the default
PopReturn(c, k) ==
    IF \E i \in 1..Len(c) : c[i].key = k /\ Live(c[i])
    THEN Some(c[CHOOSE i \in 1..Len(c) : c[i].key = k /\ Live(c[i])].obj)
    ELSE None

\* an assignment that reaches every cached draft, as if the chats shared one object
AssignAll(c, k, obj) == [i \in 1..Len(c) |-> [c[i] EXCEPT !.obj = obj]]

\* an assignment to a field of the cached draft object
Assign(c, k, obj) == [i \in 1..Len(c) |-> IF c[i].key = k THEN [c[i] EXCEPT !.obj = obj] ELSE c[i]]

\* __init__ without the check of get_current
ReminderNoCheck(c, u) == [err |-> "ok", cache |-> SetItem(c, u.chat, EmptyDraft)]

\* Reminder.__init__: the cache after it, or the exception
Reminder(c, u) ==
    IF get_current(c, u.chat) # None
    THEN [err |-> "AlreadyInProcess", cache |-> c]
    ELSE [err |-> "ok", cache |-> SetItem(c, u.chat, EmptyDraft)]

\* process that clears waiting_for before it parses the period
processClearsFirst(obj, text) ==
    IF obj.waiting_for = "period" /\ parsePeriod(text).err # "ok"
    THEN [err |-> parsePeriod(text).err, obj |-> [obj EXCEPT !.waiting_for = "none"]]
    ELSE [err |-> "ok", obj |-> [obj EXCEPT !.waiting_for = "none"]]

\* process that takes a text for the name whatever the draft waits for
processAnyText(obj, text) ==
    [err |-> "ok", obj |-> [obj EXCEPT !.name = Some(text), !.waiting_for = "none"]]

\* Reminder.process: the draft after it and the exception, if any
process(obj, text) ==
    CASE obj.waiting_for = "name" ->
           [err |-> "ok", obj |-> [obj EXCEPT !.name = Some(text), !.waiting_for = "none"]]
      [] obj.waiting_for = "period" ->
           LET p == parsePeriod(text)
           IN  IF p.err # "ok" THEN [err |-> p.err, obj |-> obj]
               ELSE [err |-> "ok", obj |-> [obj EXCEPT !.period = p.val, !.waiting_for = "none"]]
      [] obj.waiting_for = "time" ->
           LET o1 == IF obj.date = None THEN [obj EXCEPT !.date = Some(now)] ELSE obj
               t == parseTime(text)
           IN  IF t.err # "ok" \/ ~ReplaceOk(t.val[1], t.val[2], t.val[3])
               THEN [err |-> "ValueError", obj |-> o1]
               ELSE [err |-> "ok",
                     obj |-> [o1 EXCEPT !.date = Some(Replace(The(o1.date), t.val[1], t.val[2],
                                                              t.val[3])),
                                        !.waiting_for = "none"]]
      [] OTHER -> [err |-> "NothingToDo", obj |-> obj]

\* a menu that puts the draft it shows into the cache again (a sliding TTL)
ShowMenuRefresh(c, u) ==
    LET cur == get_current(c, u.chat)
    IN  SetItem(c, u.chat, IF cur # None THEN [The(cur) EXCEPT !.waiting_for = "none"]
                           ELSE EmptyDraft)

\* AddReminderMenu.handle and handle_menu: show the draft, make it if there is none
ShowMenu(c, u) ==
    LET cur == get_current(c, u.chat)
    IN  IF cur # None THEN Assign(c, u.chat, [The(cur) EXCEPT !.waiting_for = "none"])
        ELSE Reminder(c, u).cache

\* a selection that stores the day at midnight whatever time the draft had
SelectDateMidnight(old, day) ==
    [old EXCEPT !.date = Some(day * 86400), !.waiting_for = "none"]

\* ReminderDateMenu.handle, a day selected: the draft with the date of that day,
\* hour, minute and second taken from the date it had
SelectDate(old, day) ==
    LET date == IF old.date # None
                THEN day * 86400 + (The(old.date) % 86400)
                ELSE day * 86400
    IN  [old EXCEPT !.date = Some(date), !.waiting_for = "none"]

\* SaveMenu.handle: the required attribute that is missing, "" if none is
MissingAlsoPeriod(obj) ==
    IF obj.name = None THEN "name"
    ELSE IF obj.date = None THEN "date"
    ELSE IF obj.period = None THEN "period" ELSE ""

Missing(obj) ==
    IF obj.name = None THEN "name" ELSE IF obj.date = None THEN "date" ELSE ""

-----------------------------------------------------------------------------
(* Handlers of the wizard.  Each ends in lastOp.out: "ok", or the exception. *)

\* the constructor, called for the chat of u
NewReminder(u) ==
    /\ ~hung
    /\ cache' = Reminder(cache, u).cache
    /\ lastOp' = Op("NEW", u.chat, Reminder(cache, u).err)
    /\ UNCHANGED <<now, reminder, chat_user, msgs, sent, hung, running, tally>>

\* AddReminderMenu.handle
AddReminderMenuHandle(u) ==
    /\ ~hung
    /\ cache' = ShowMenu(cache, u)
    /\ lastOp' = Op("ADD", u.chat, "ok")
    /\ UNCHANGED <<now, reminder, chat_user, msgs, sent, hung, running, tally>>

\* ReminderNameMenu.handle, ReminderTimeMenu.handle, PeriodMenu.handle and the
\* first appearance of ReminderDateMenu.handle: _Menu.get_reminder, then the field
FieldMenuHandle(u, field) ==
    /\ ~hung
    /\ LET cur == get_current(cache, u.chat)
       IN  IF cur = None
           THEN /\ lastOp' = Op("MENU", u.chat, "ReminderNotFound")
                /\ UNCHANGED cache
           ELSE /\ cache' = Assign(cache, u.chat, [The(cur) EXCEPT !.waiting_for = field])
                /\ lastOp' = Op("MENU", u.chat, "ok")
    /\ UNCHANGED <<now, reminder, chat_user, msgs, sent, hung, running, tally>>

\* ReminderDateMenu.handle when a day of the calendar is selected
DateSelected(u, day) ==
    /\ ~hung
    /\ LET cur == get_current(cache, u.chat)
       IN  IF cur = None
           THEN /\ lastOp' = Op("DAY", u.chat, "ReminderNotFound")
                /\ UNCHANGED cache
           ELSE LET c1 == Assign(cache, u.chat, SelectDate(The(cur), day))
                IN  /\ cache' = ShowMenu(c1, u)
                    /\ lastOp' = Op("DAY", u.chat, "ok")
    /\ UNCHANGED <<now, reminder, chat_user, msgs, sent, hung, running, tally>>

\* SaveMenu.handle
SaveMenuHandle(u) ==
    /\ ~hung
    /\ LET cur == get_current(cache, u.chat)
       IN  IF cur = None
           THEN /\ lastOp' = Op("SAVE", u.chat, "ReminderNotFound")
                /\ UNCHANGED <<cache, reminder, chat_user, msgs>>
           ELSE IF Missing(The(cur)) # ""
           THEN /\ cache' = ShowMenu(cache, u)
                /\ lastOp' = Op("SAVE", u.chat, "Required")
                /\ UNCHANGED <<reminder, chat_user, msgs>>
           ELSE /\ Len(reminder) < MaxReminders
                /\ Create(The(cur), u)
                /\ cache' = pop_current(cache, u.chat)
                /\ lastOp' = Op("SAVE", u.chat, "Saved")
    /\ UNCHANGED <<now, sent, hung, running, tally>>

\* CancelMenu.handle
CancelMenuHandle(u) ==
    /\ ~hung
    /\ cache' = pop_current(cache, u.chat)
    /\ lastOp' = Op("CANCEL", u.chat, "ok")
    /\ UNCHANGED <<now, reminder, chat_user, msgs, sent, hung, running, tally>>

\* RawMessagesProcessor.handle: a text message.  Without a draft get_reminder
\* calls resolve_markup, which reads update.callback_query.message: a text
\* message has no callback_query.
RawMessagesProcessorHandle(u, text) ==
    /\ ~hung
    /\ LET cur == get_current(cache, u.chat)
       IN  IF cur = None
           THEN /\ lastOp' = Op("TEXT", u.chat, "AttributeError")
                /\ UNCHANGED cache
           ELSE LET r == process(The(cur), text)
                    c1 == Assign(cache, u.chat, r.obj)
                IN  /\ cache' = IF r.err = "ok" THEN ShowMenu(c1, u) ELSE c1
                    /\ lastOp' = Op("TEXT", u.chat, r.err)
    /\ UNCHANGED <<now, reminder, chat_user, msgs, sent, hung, running, tally>>

\* time passes while drafts are kept: a second more than half a TTL at a step
Sleep ==
    /\ now < MaxSleep * (TTL \div 2 + 1)
    /\ now' = now + TTL \div 2 + 1
    /\ lastOp' = Op("SLEEP", 0, "ok")
    /\ UNCHANGED <<cache, reminder, chat_user, msgs, sent, hung, running, tally>>

\* the texts the users send and the days they select
Texts == {<<"1", "h">>, <<"9">>}
DraftTexts == Texts \cup {<<"9", "9">>}
Days == {1}
Fields == {"name", "date", "time", "period"}

\* the wizard of one chat, from the first menu to the saved reminder; the
\* clock stands still, a draft is filled well within its TTL
NextDraft ==
    \/ \E u \in Solo : AddReminderMenuHandle(u)
    \/ \E u \in Solo, field \in Fields : FieldMenuHandle(u, field)
    \/ \E u \in Solo, day \in Days : DateSelected(u, day)
    \/ \E u \in Solo : SaveMenuHandle(u)
    \/ \E u \in Solo : CancelMenuHandle(u)
    \/ \E u \in Solo, text \in DraftTexts : RawMessagesProcessorHandle(u, text)

SpecDraft == Init /\ [][NextDraft]_vars

\* the drafts of all chats in the cache: made, named, cancelled, expired
NextRegistry ==
    \/ \E u \in Updates : NewReminder(u)
    \/ \E u \in Updates : AddReminderMenuHandle(u)
    \/ \E u \in Updates : FieldMenuHandle(u, "name")
    \/ \E u \in Updates : CancelMenuHandle(u)
    \/ \E u \in Updates, text \in Texts : RawMessagesProcessorHandle(u, text)
    \/ Sleep

SpecRegistry == Init /\ [][NextRegistry]_vars

\* the wizards of two chats side by side, each from the first menu to the saved
\* reminder; the clock stands still
NextPair ==
    \/ \E u \in Updates : AddReminderMenuHandle(u)
    \/ \E u \in Updates, field \in {"name", "time"} : FieldMenuHandle(u, field)
    \/ \E u \in Updates : SaveMenuHandle(u)
    \/ \E u \in Updates : CancelMenuHandle(u)
    \/ \E u \in Updates, text \in Texts : RawMessagesProcessorHandle(u, text)

SpecPair == Init /\ [][NextPair]_vars

\* texts for parsePeriod, each put together from parts: pieces of any kind, the
\* grammar kept or not, and whole <amount><unit> tokens
Pieces == {<<"1">>, <<"2", "0">>, <<"h">>, <<"D">>, <<"m", "i", "n">>, <<"x">>, <<" ">>}
Tokens == {a \o k : a \in {<<"1">>, <<"3", "0">>}, k \in MarkupKeys}
LongTokens == {<<"1", "2", "3", "4", "5", "6", "7">> \o k : k \in MarkupKeys}

SeqsUpTo(S, n) == UNION {[1..k -> S] : k \in 1..n}

PeriodInputs ==
    SeqsUpTo(Pieces, MaxPieces) \cup SeqsUpTo(Tokens, MaxTokens) \cup SeqsUpTo(LongTokens, 1)

\* "".join(parts)
RECURSIVE Join(_)
Join(parts) == IF parts = <<>> THEN <<>> ELSE parts[1] \o Join(Tail(parts))

\* the exceptions RawMessagesProcessor.handle catches and answers
Recovered == {"NothingToDo", "ReminderNotFound", "ValueError"}

\* a text is about to be parsed
InitParse ==
    /\ now = 0
    /\ cache = <<>>
    /\ reminder = <<Stop(NewRow(OldObj, 1))>>
    /\ chat_user = ChatUserGetOrCreate(<<>>, Update(1))[1]
    /\ msgs = <<0>>
    /\ sent = 0
    /\ hung = FALSE
    /\ running = <<>>
    /\ tally = [c \in Chats |-> [done |-> 0, snoozed |-> 0]]
    /\ lastOp \in {Op("input", parts, None) : parts \in PeriodInputs}

\* Reminder.parsePeriod called with the text
ParsePeriodCall ==
    /\ lastOp.op = "input"
    /\ lastOp' = Op("parsePeriod", lastOp.id, parsePeriod(Join(lastOp.id)))
    /\ UNCHANGED <<now, cache, reminder, chat_user, msgs, sent, hung, running, tally>>

\* the period that was parsed goes through Reminder.create (str(period)) and
\* comes back in rewind (exec)
StoreAndRewind ==
    /\ lastOp.op = "parsePeriod"
    /\ lastOp.out.err = "ok"
    /\ lastOp' = Op("rewind", lastOp.id, ExecPeriod(PeriodStr(lastOp.out.val)))
    /\ UNCHANGED <<now, cache, reminder, chat_user, msgs, sent, hung, running, tally>>

NextParse == ParsePeriodCall \/ StoreAndRewind

SpecParse == InitParse /\ [][NextParse]_vars

-----------------------------------------------------------------------------
(* Properties of the life cycle, checked under Spec *)

\* the handler that ran last was a tap of one of these buttons and it returned
Tapped(actions) == lastOp.op \in actions /\ lastOp.out = "ok"

\* the period of a row as a number of seconds; -1 for a row without period
PeriodSeconds(row) ==
    LET delta == ExecPeriod(row.period)
    IN  IF delta = None THEN 0 - 1 ELSE AddDelta(0, The(delta))

Ceil(a, b) == (a + b - 1) \div b

\* C2: for a recurring reminder (a period longer than zero), a rewind (DONE or
\* SKIP) that has returned leaves remind_time_real, the time the due query
\* compares with now, later than now.
C2_RewindLeavesFuture ==
    (Tapped({"DONE", "SKIP"}) /\ PeriodSeconds(reminder[lastOp.id]) > 0)
        => reminder[lastOp.id].remind_time_real > now

\* a rewind has returned and has left a recurring reminder due: its planned time
\* is later than now, the time of an earlier snooze is not
C2_StillDue ==
    /\ Tapped({"DONE", "SKIP"})
    /\ PeriodSeconds(reminder[lastOp.id]) > 0
    /\ reminder[lastOp.id].status = 1
    /\ reminder[lastOp.id].remind_time_planned > now
    /\ reminder[lastOp.id].remind_time_real <= now
    /\ lastOp.id \in GetActualReminders

C4_StoppedTimeFrozen ==
    [][\A i \in Ids :
         reminder[i].status = 0
         => reminder'[i].remind_time_real = reminder[i].remind_time_real]_vars

\* C5: a stopped reminder stays stopped at every step, the due query does not
\* return it and the scan sends no notification for it.
C5_StoppedIsTerminal ==
    [][\A i \in Ids :
         reminder[i].status = 0
         => /\ reminder'[i].status = 0
            /\ i \notin GetActualReminders'
            /\ msgs'[i] <= msgs[i]]_vars

\* a snooze button was tapped on a stopped reminder, which is still stopped
C5_Witness ==
    /\ Tapped({"SNOOZE15", "SNOOZE60"})
    /\ reminder[lastOp.id].status = 0
    /\ reminder[lastOp.id].remind_time_real <= now + 3600

\* C8: a rewind (DONE or SKIP) of an active reminder without period stops it and
\* changes nothing else of the row.
C8_NoPeriodStops ==
    [][\A i \in Ids :
         (Tapped({"DONE", "SKIP"})' /\ lastOp'.id = i /\ reminder[i].status = 1
            /\ PeriodSeconds(reminder[i]) < 0)
         => reminder'[i] = [reminder[i] EXCEPT !.status = 0]]_vars

\* the only tap so far was SKIP, on a reminder without period, now stopped
C8_Witness ==
    /\ Tapped({"SKIP"}) /\ sent = 1
    /\ PeriodSeconds(reminder[lastOp.id]) < 0
    /\ reminder[lastOp.id].status = 0
    /\ reminder[lastOp.id].remind_time_real = reminder[lastOp.id].create_time

\* C9: a snooze sets remind_time_real to now + delta, keeps the status and lowers
\* the karma of the owner by 0.1, whatever the period and the old time.
C9_Snooze ==
    [][\A i \in Ids :
         (Tapped({"SNOOZE15", "SNOOZE60"})' /\ lastOp'.id = i)
         => /\ reminder'[i].remind_time_real = now + SnoozeMinutes(lastOp'.op) * 60
            /\ reminder'[i].status = reminder[i].status
            /\ chat_user'[reminder[i].chat_user].karma =
                 chat_user[reminder[i].chat_user].karma - KarmaDown]_vars

\* a reminder without period that was snoozed earlier is snoozed again, later
C9_Witness ==
    /\ Tapped({"SNOOZE15"}) /\ now > 0
    /\ PeriodSeconds(reminder[lastOp.id]) < 0
    /\ reminder[lastOp.id].remind_time_real = now + ClockStep
    /\ chat_user[reminder[lastOp.id].chat_user].karma = KarmaDefault - 2 * KarmaDown

\* C10: a DONE that has returned has rewound the reminder (stopped it if it has
\* no period, else left a planned time that is not before now), has raised the
\* karma of its owner by 1 and has left every other karma as it was.
C10_Done ==
    [][\A i \in Ids :
         (Tapped({"DONE"})' /\ lastOp'.id = i)
         => /\ IF PeriodSeconds(reminder[i]) < 0
               THEN reminder'[i].status = 0
               ELSE /\ reminder'[i].remind_time_planned >= now
                    /\ reminder'[i].status = reminder[i].status
            /\ \A c \in 1..Len(chat_user) :
                 chat_user'[c].karma =
                   IF c = reminder[i].chat_user THEN chat_user[c].karma + KarmaUp
                                                ELSE chat_user[c].karma]_vars

\* DONE was tapped on a reminder of user 2 while user 1 has a karma as well
C10_Witness ==
    /\ Tapped({"DONE"})
    /\ Len(chat_user) = 2
    /\ reminder[lastOp.id].chat_user = 2
    /\ chat_user[2].karma = KarmaDefault + KarmaUp
    /\ chat_user[1].karma = KarmaDefault

-----------------------------------------------------------------------------
(* Properties of the drafts, checked under SpecRegistry and SpecDraft *)

\* C1: the cache never holds two drafts of one chat, and the constructor called
\* for a chat that has a live draft raises AlreadyInProcess and leaves the cache,
\* the draft included, as it was.
C1_OneDraftPerChat ==
    /\ [](\A i, j \in 1..Len(cache) : cache[i].key = cache[j].key => i = j)
    /\ [][\A u \in Updates :
            (lastOp'.op = "NEW" /\ lastOp'.id = u.chat /\ get_current(cache, u.chat) # None)
            => (lastOp'.out = "AlreadyInProcess" /\ cache' = cache)]_vars

\* both chats have a draft; the constructor was called again for chat 1, whose
\* draft has kept its name
C1_Witness ==
    /\ lastOp = Op("NEW", 1, "AlreadyInProcess")
    /\ Len(cache) = 2
    /\ get_current(cache, 1) # None
    /\ The(get_current(cache, 1)).name = Some(<<"9">>)

\* C6: a save that succeeds appends exactly one row, with create_time,
\* remind_time_planned and remind_time_real equal to the date of the draft, the
\* name of the draft as text and status 1; afterwards the chat has no draft and
\* the constructor succeeds for it.
C6_SaveCreates ==
    [][\A u \in Solo :
         (lastOp'.op = "SAVE" /\ lastOp'.id = u.chat /\ lastOp'.out = "Saved")
         => LET d == The(get_current(cache, u.chat))
                r == reminder'[Len(reminder')]
            IN  /\ Len(reminder') = Len(reminder) + 1
                /\ SubSeq(reminder', 1, Len(reminder)) = reminder
                /\ r.create_time = The(d.date)
                /\ r.remind_time_planned = The(d.date)
                /\ r.remind_time_real = The(d.date)
                /\ r.text = The(d.name)
                /\ r.status = 1
                /\ get_current(cache', u.chat) = None
                /\ Reminder(cache', u).err = "ok"]_vars

\* a draft with the date of day 1, 9:00 has been saved and the chat has no draft
C6_Witness ==
    /\ lastOp = Op("SAVE", 2, "Saved")
    /\ get_current(cache, 2) = None
    /\ reminder[Len(reminder)].remind_time_real = 86400 + 9 * 3600
    /\ reminder[Len(reminder)].create_time = 86400 + 9 * 3600
    /\ reminder[Len(reminder)].status = 1

\* C7: a save of a draft without name or without date creates no row and leaves
\* the draft in the cache with its name, date and period; a save of a draft with
\* both succeeds and creates a row, with or without a period.
C7_SaveRequires ==
    [][\A u \in Solo :
         (lastOp'.op = "SAVE" /\ lastOp'.id = u.chat /\ get_current(cache, u.chat) # None)
         => LET d == The(get_current(cache, u.chat))
            IN  IF d.name = None \/ d.date = None
                THEN /\ lastOp'.out = "Required"
                     /\ reminder' = reminder
                     /\ get_current(cache', u.chat) # None
                     /\ The(get_current(cache', u.chat)).name = d.name
                     /\ The(get_current(cache', u.chat)).date = d.date
                     /\ The(get_current(cache', u.chat)).period = d.period
                ELSE /\ lastOp'.out = "Saved"
                     /\ Len(reminder') = Len(reminder) + 1]_vars

\* a save was refused for a draft that has a name and a period, but no date
C7_Witness ==
    /\ lastOp = Op("SAVE", 2, "Required")
    /\ get_current(cache, 2) # None
    /\ The(get_current(cache, 2)).name # None
    /\ The(get_current(cache, 2)).date = None
    /\ The(get_current(cache, 2)).period # None

\* a draft without period has been saved
C7_SavedWithoutPeriod ==
    /\ lastOp = Op("SAVE", 2, "Saved")
    /\ ExecPeriod(reminder[Len(reminder)].period) = None

-----------------------------------------------------------------------------
(* More properties of the life cycle, checked under Spec *)

\* C11: a SKIP that has returned changes the row of the reminder as rewind does
\* (stopped if it has no period, else the planned time moved past now by whole
\* periods and the real time with it) and leaves every other row and the karma
\* of every chat_user as they were.
C11_SkipOnlyRewinds ==
    [][\A i \in Ids :
         (Tapped({"SKIP"})' /\ lastOp'.id = i)
         => /\ reminder' = [reminder EXCEPT ![i] = Rewind(reminder[i])]
            /\ IF PeriodSeconds(reminder[i]) < 0
               THEN reminder'[i] = [reminder[i] EXCEPT !.status = 0]
               ELSE /\ reminder'[i].status = reminder[i].status
                    /\ reminder'[i].remind_time_planned >= now
                    /\ reminder'[i].remind_time_planned >= reminder[i].remind_time_planned
            /\ chat_user' = chat_user]_vars

\* SKIP, the first tap, has moved a recurring reminder on; the karma of its
\* owner is the default
C11_Witness ==
    /\ lastOp.op = "SKIP" /\ lastOp.out = "ok"
    /\ PeriodSeconds(reminder[lastOp.id]) = 3 * ClockStep
    /\ reminder[lastOp.id].remind_time_real = reminder[lastOp.id].create_time + 3 * ClockStep
    /\ reminder[lastOp.id].status = 1
    /\ chat_user[reminder[lastOp.id].chat_user].karma = KarmaDefault
    /\ msgs[lastOp.id] = 0 /\ sent = 1

\* C12: a REMOVE sets the status of the reminder to 0, with or without period,
\* and changes nothing else: no time of the row, no other row, no karma.
C12_RemoveStops ==
    [][\A i \in Ids :
         (Tapped({"REMOVE"})' /\ lastOp'.id = i)
         => /\ reminder' = [reminder EXCEPT ![i] = [reminder[i] EXCEPT !.status = 0]]
            /\ chat_user' = chat_user]_vars

\* REMOVE has stopped an active recurring reminder, its times are those of its
\* creation
C12_Witness ==
    /\ lastOp.op = "REMOVE" /\ lastOp.out = "ok"
    /\ PeriodSeconds(reminder[lastOp.id]) > 0
    /\ reminder[lastOp.id].status = 0
    /\ reminder[lastOp.id].remind_time_planned = reminder[lastOp.id].create_time
    /\ reminder[lastOp.id].remind_time_real = reminder[lastOp.id].create_time
    /\ sent = 1

-----------------------------------------------------------------------------
(* Properties of the handlers step by step, checked under SpecSteps *)

-----------------------------------------------------------------------------
(* Termination of the life cycle, checked under Spec *)

\* period texts of the grammar: amounts are whole numbers, zero included
PeriodTexts == {<<"0", "m", "i", "n">>, <<"1", "5", "m", "i", "n">>,
                <<"4", "5", "m", "i", "n">>}

\* C14: every transition returns: for a reminder whose period is one that
\* parsePeriod returns, the zero periods included, no DONE and no SKIP is left
\* inside the loop of rewind.
C14_RewindTerminates ==
    \A t \in PeriodTexts :
      parsePeriod(t).err = "ok"
      => \A i \in Ids :
           reminder[i].period = PeriodStr(parsePeriod(t).val)
           => ~(lastOp.id = i /\ lastOp.out = "hung") /\ ~(hung /\ lastOp.id = i)

\* SKIP was tapped on an overdue reminder with the period of "0min": adding the
\* period does not move the planned time and the handler does not return
C14_Hung ==
    /\ hung
    /\ lastOp.op = "SKIP" /\ lastOp.out = "hung"
    /\ reminder[lastOp.id].period = PeriodStr(parsePeriod(<<"0", "m", "i", "n">>).val)
    /\ reminder[lastOp.id].remind_time_planned < now

-----------------------------------------------------------------------------
(* Properties of the scan, checked under Spec *)

\* reminder i is active and its time has come
IsDue(i) == reminder[i].status = 1 /\ reminder[i].remind_time_real <= now

\* the scan has just sent a notification of reminder i
Notified(i) == lastOp'.op = "TICK" /\ msgs'[i] = msgs[i] + 1

\* the scan has just failed to send a notification of reminder i
Missed(i) == lastOp'.op = "TICK" /\ reminder'[i] # reminder[i]

\* C15: one scan sends one notification for each reminder that is active and
\* due, unless the send fails, and none for any other reminder; a scan with no
\* reminder due sends nothing and writes nothing.
C15_ScanNotifiesDue ==
    [][lastOp'.op = "TICK"
       => /\ \A i \in Ids :
               IF IsDue(i)
               THEN \/ msgs'[i] = msgs[i] + 1 /\ reminder'[i] = reminder[i]
                    \/ msgs'[i] = msgs[i] /\ reminder'[i] # reminder[i]
               ELSE msgs'[i] = msgs[i] /\ reminder'[i] = reminder[i]
          /\ sent' = sent + Cardinality({i \in Ids : msgs'[i] # msgs[i]})
          /\ Len(reminder') = Len(reminder)
          /\ chat_user' = chat_user
          /\ (\A i \in Ids : ~IsDue(i))
               => (reminder' = reminder /\ msgs' = msgs /\ sent' = sent)]_vars

\* a scan has notified the active reminder and not the stopped one, whose time
\* has come as well
C15_Witness ==
    /\ lastOp.op = "TICK"
    /\ Len(reminder) = 2
    /\ reminder[1].status = 0 /\ reminder[1].remind_time_real <= now
    /\ reminder[2].status = 1 /\ reminder[2].remind_time_real <= now
    /\ msgs = <<0, 1>>
    /\ sent = 1

\* C16: a send that succeeds changes no row and no karma, so the reminder is
\* still due; a due reminder stays due at every step but a tap on one of its
\* notifications and a failed send, and so the next scans send it again.
C16_ResentUntilAction ==
    [][\A i \in Ids :
         /\ Notified(i)
              => (reminder'[i] = reminder[i] /\ chat_user' = chat_user /\ IsDue(i)')
         /\ (IsDue(i) /\ ~(lastOp'.op \in Actions /\ lastOp'.id = i) /\ ~Missed(i))
              => IsDue(i)']_vars

\* two scans have sent the same reminder twice and no button was tapped
C16_Witness ==
    /\ lastOp.op = "TICK"
    /\ Len(reminder) = 2
    /\ msgs[2] = 2
    /\ sent = 2
    /\ reminder[2].remind_time_real = reminder[2].create_time
    /\ IsDue(2)

\* C17: a failed send moves remind_time_real of the reminder forward by one hour
\* and changes nothing else: the reminder is still active, no karma changes, and
\* it is due again an hour after its old time.
C17_MissAddsAnHour ==
    [][\A i \in Ids :
         Missed(i)
         => /\ reminder'[i] = [reminder[i] EXCEPT !.remind_time_real = @ + 3600]
            /\ reminder'[i].status = 1
            /\ reminder'[i].remind_time_real <= now + 3600
            /\ msgs'[i] = msgs[i]
            /\ chat_user' = chat_user]_vars

\* a send has failed a quarter of an hour after the time of the reminder
C17_Witness ==
    /\ lastOp.op = "TICK"
    /\ now = ClockStep
    /\ Len(reminder) = 2
    /\ reminder[2].status = 1
    /\ reminder[2].remind_time_real = reminder[2].create_time + 3600
    /\ msgs[2] = 0 /\ sent = 0

-----------------------------------------------------------------------------
(* Errors of the wizard, checked under SpecDraft *)

\* C18: a text for a draft that waits for nothing, or for the date, ends in
\* NothingToDo and leaves the draft, and the cache, as they were.
C18_NothingToDo ==
    [][\A u \in Solo :
         (lastOp'.op = "TEXT" /\ lastOp'.id = u.chat /\ get_current(cache, u.chat) # None
            /\ The(get_current(cache, u.chat)).waiting_for \in {"none", "date"})
         => (lastOp'.out = "NothingToDo" /\ cache' = cache)]_vars

\* a text came while the draft, which has a name, waited for the date
C18_Witness ==
    /\ lastOp = Op("TEXT", 2, "NothingToDo")
    /\ get_current(cache, 2) # None
    /\ The(get_current(cache, 2)).waiting_for = "date"
    /\ The(get_current(cache, 2)).name # None
    /\ The(get_current(cache, 2)).date = None

\* C19: the add-reminder menu entered for a chat that has a live draft is
\* answered as AlreadyInProcess and leaves the draft as it was, waiting_for
\* included.
C19_SecondDraftRefused ==
    [][\A u \in Solo :
         (lastOp'.op = "ADD" /\ lastOp'.id = u.chat /\ get_current(cache, u.chat) # None)
         => (lastOp'.out = "AlreadyInProcess" /\ cache' = cache)]_vars

\* C20: a text for a chat without live draft ends in ReminderNotFound, in no
\* other error, and makes no draft.
C20_TextWithoutDraft ==
    [][\A u \in Solo :
         (lastOp'.op = "TEXT" /\ lastOp'.id = u.chat /\ get_current(cache, u.chat) = None)
         => (lastOp'.out = "ReminderNotFound" /\ get_current(cache', u.chat) = None)]_vars

\* a text came after the draft was saved: the handler ended in AttributeError
C20_AttributeError ==
    /\ lastOp = Op("TEXT", 2, "AttributeError")
    /\ get_current(cache, 2) = None
    /\ Len(reminder) = 2

-----------------------------------------------------------------------------
(* Independence of the drafts, checked under SpecPair *)

WizardOps == {"NEW", "ADD", "MENU", "DAY", "SAVE", "CANCEL", "TEXT"}

\* C21: a handler that runs for one chat (making the draft, a menu, a text that
\* fills a field or fails, cancel, save) leaves what get_current returns for
\* every other chat as it was: the same presence and the same fields.
C21_OthersUntouched ==
    [][\A d \in Chats :
         (lastOp'.op \in WizardOps /\ lastOp'.id # d)
             => get_current(cache', d) = get_current(cache, d)]_vars

\* a text of chat 1 has failed and a reminder of chat 1 is saved, while chat 2
\* holds a draft with a name and a date
C21_Witness ==
    /\ lastOp = Op("TEXT", 1, "ValueError")
    /\ \E i \in 1..Len(reminder) : i > 1 /\ reminder[i].chat_user = 1
    /\ get_current(cache, 2) # None
    /\ The(get_current(cache, 2)).name # None
    /\ The(get_current(cache, 2)).date # None

-----------------------------------------------------------------------------
(* Lifetime of a draft, checked under SpecRegistry *)

\* the expiry times of the entries the cache holds for a chat, visible or not
ExpiresAt(c, k) == {c[i].expire : i \in {j \in 1..Len(c) : c[j].key = k}}

\* C22: a draft lives for TTL from the moment it was made.  No handler moves
\* the expiry of a draft that is there (menus, texts and reads do not extend
\* it); the constructor sets it to now + TTL; and once the expiry has passed,
\* get_current returns None and the constructor makes a new, empty draft for
\* the chat without AlreadyInProcess.
C22_PureTTL ==
    [][\A d \in Chats :
         LET was == get_current(cache, d)
             gone == ExpiresAt(cache, d) # {} /\ \A x \in ExpiresAt(cache, d) : x < now
         IN  /\ was # None => ExpiresAt(cache', d) \subseteq ExpiresAt(cache, d)
             /\ gone => was = None
             /\ (was = None /\ lastOp'.op = "NEW" /\ lastOp'.id = d)
                  => /\ lastOp'.out = "ok"
                     /\ ExpiresAt(cache', d) = {now + TTL}
                     /\ get_current(cache', d) = Some(EmptyDraft)]_vars

\* the named draft of chat 1 has passed its expiry: it is still stored, and the
\* text that chat 1 sent last found no draft
C22_Witness ==
    /\ lastOp = Op("TEXT", 1, "AttributeError")
    /\ get_current(cache, 1) = None
    /\ \E i \in 1..Len(cache) :
          /\ cache[i].key = 1
          /\ cache[i].obj.name # None
          /\ cache[i].expire < now

-----------------------------------------------------------------------------
(* pop_current, checked under SpecPair *)

\* C23: after cancel, and after a save that stored the reminder, the draft of
\* the chat is gone: pop_current returned the draft that was there, get_current
\* returns None and the constructor succeeds.  Cancel for a chat without a draft
\* raises nothing, returns None and leaves the cache as it was.
C23_PopRemoves ==
    [][(lastOp'.op = "CANCEL" \/ (lastOp'.op = "SAVE" /\ lastOp'.out = "Saved"))
         => LET d == lastOp'.id
            IN  /\ PopReturn(cache, d) = get_current(cache, d)
                /\ get_current(cache', d) = None
                /\ PopReturn(cache', d) = None
                /\ Reminder(cache', Update(d)).err = "ok"
                /\ lastOp'.op = "CANCEL" => lastOp'.out = "ok"
                /\ get_current(cache, d) = None => cache' = cache]_vars

\* the draft of chat 1 was saved and popped, that of chat 2 is still there
C23_Witness ==
    /\ lastOp = Op("SAVE", 1, "Saved")
    /\ get_current(cache, 1) = None
    /\ Reminder(cache, Update(1)).err = "ok"
    /\ get_current(cache, 2) # None

-----------------------------------------------------------------------------
(* Properties of parsePeriod, checked under SpecParse *)

\* the text from position i on is one or more <amount><unit> tokens: digits,
\* then a unit of the table, then the end or the next token
RECURSIVE TokensFrom(_, _)
TokensFrom(t, i) ==
    LET q == RunEnd(t, i, TRUE)
        r == RunEnd(t, q, FALSE)
    IN  /\ q > i
        /\ r > q
        /\ SubSeq(t, q, r - 1) \in MarkupKeys
        /\ (r > Len(t) \/ TokensFrom(t, r))

\* the grammar (<amount><unit>)+, case-insensitive, whitespace ignored
WholeGrammar(text) == TokensFrom(NoSpaces([i \in 1..Len(text) |-> Lower(text[i])]), 1)

\* C24: parsePeriod rejects every text that is not, as a whole, one or more
\* <amount><unit> tokens with a unit of the table, and it rejects it with
\* ValueError, the error that RawMessagesProcessor.handle answers; a token
\* with an unknown unit fails that way too.
C24_RejectsMalformed ==
    lastOp.op = "parsePeriod"
        => (~WholeGrammar(Join(lastOp.id))
              => lastOp.out.err = "ValueError" /\ lastOp.out.err \in Recovered)

\* a token with an unknown unit raises KeyError, which the handler lets through
C24_KeyError ==
    /\ lastOp.op = "parsePeriod"
    /\ lastOp.id = <<<<"1">>, <<"x">>>>
    /\ lastOp.out.err = "KeyError"
    /\ lastOp.out.err \notin Recovered

\* the orders in which n tokens can be written
Perms(n) == {f \in [1..n -> 1..n] : \A i, j \in 1..n : f[i] = f[j] => i = j}

\* the decimal digit of a number below ten
DigitChar(n) == CHOOSE c \in Digits : DigitVal(c) = n

\* C25: a text of <amount><unit> tokens is a period, and parsePeriod returns the
\* same period for every order of the tokens; a unit written n times with
\* amount 1 gives the period of n of that unit (1d1d is 2d).
C25_OrderFree ==
    (lastOp.op = "parsePeriod" /\ \A i \in 1..Len(lastOp.id) : lastOp.id[i] \in Tokens)
        => LET toks == lastOp.id
               n == Len(toks)
           IN  /\ lastOp.out.err = "ok"
               /\ \A f \in Perms(n) :
                     parsePeriod(Join([i \in 1..n |-> toks[f[i]]])) = lastOp.out
               /\ \A k \in MarkupKeys :
                     (\A i \in 1..n : toks[i] = <<"1">> \o k)
                         => lastOp.out = parsePeriod(<<DigitChar(n)>> \o k)

\* 30h 1d 30min was parsed: 2 days, 6 hours and 30 minutes, as for 1d 30min 30h
C25_Witness ==
    /\ lastOp.op = "parsePeriod"
    /\ lastOp.id = <<<<"3", "0", "h">>, <<"1", "d">>, <<"3", "0", "m", "i", "n">>>>
    /\ lastOp.out = [err |-> "ok", val |-> Some(relativedelta(0, 0, 2, 6, 30))]
    /\ lastOp.out = parsePeriod(<<"1", "d", "3", "0", "m", "i", "n", "3", "0", "h">>)

-----------------------------------------------------------------------------
(* Failing field fills, checked under SpecDraft *)

\* C26: a text that parsePeriod rejects while the draft waits for the period
\* ends the handler with the error of parsePeriod and leaves the draft as it
\* was: the period keeps its value and waiting_for stays "period".
C26_FailedPeriodKeeps ==
    [][\A d \in Chats :
         LET was == get_current(cache, d)
         IN  (/\ lastOp'.op = "TEXT" /\ lastOp'.id = d
              /\ was # None
              /\ The(was).waiting_for = "period"
              /\ lastOp'.out # "ok")
                 => /\ lastOp'.out \in {"ValueError", "KeyError"}
                    /\ get_current(cache', d) = was]_vars

\* the draft has the period of one hour and waits for a period; the text sent
\* last was rejected
C26_Witness ==
    /\ lastOp = Op("TEXT", 2, "ValueError")
    /\ get_current(cache, 2) # None
    /\ The(get_current(cache, 2)).waiting_for = "period"
    /\ The(get_current(cache, 2)).period = Some(relativedelta(0, 0, 0, 1, 0))

\* C27: a text that is no time, or a time out of range, sent while the draft
\* waits for the time, leaves the draft as it was: the date keeps its value
\* (None stays None), name and period are unchanged, waiting_for stays "time".
C27_FailedTimeKeeps ==
    [][\A d \in Chats :
         LET was == get_current(cache, d)
         IN  (/\ lastOp'.op = "TEXT" /\ lastOp'.id = d
              /\ was # None
              /\ The(was).waiting_for = "time"
              /\ lastOp'.out # "ok")
                 => get_current(cache', d) = was]_vars

\* the time was rejected and the draft, which had no date, has the date of now
C27_DateDefaulted ==
    /\ lastOp = Op("TEXT", 2, "ValueError")
    /\ get_current(cache, 2) # None
    /\ The(get_current(cache, 2)).waiting_for = "time"
    /\ The(get_current(cache, 2)).date = Some(now)

-----------------------------------------------------------------------------
(* Date and time of the draft, checked under SpecDraft *)

\* the draft after ReminderTimeMenu and a text
EnterTime(obj, text) == process([obj EXCEPT !.waiting_for = "time"], text)

\* days of the calendar
CalendarDays == {1, 2}

\* C28: for the draft of a chat, whatever it holds, a day D of the calendar
\* and a text that is a valid time h:m:s: selecting D and then entering the
\* time gives the same date as entering the time and then selecting D, namely
\* D at h:m:s; and selecting another day after that keeps h:m:s.
C28_DateTimeCommute ==
    \A d \in Chats :
      get_current(cache, d) # None
      => LET obj == The(get_current(cache, d))
         IN  \A day \in CalendarDays, text \in DraftTexts :
               EnterTime(obj, text).err = "ok"
               => LET hms == parseTime(text).val
                      at(D) == Some(D * 86400 + hms[1] * 3600 + hms[2] * 60 + hms[3])
                      dateFirst == EnterTime(SelectDate(obj, day), text)
                      timeFirst == SelectDate(EnterTime(obj, text).obj, day)
                  IN  /\ dateFirst.err = "ok"
                      /\ dateFirst.obj.date = at(day)
                      /\ timeFirst.date = at(day)
                      /\ \A again \in CalendarDays : SelectDate(timeFirst, again).date = at(again)

\* day 1 was selected last and the draft has day 1 at 9:00: the time had been
\* entered before
C28_Witness ==
    /\ lastOp = Op("DAY", 2, "ok")
    /\ get_current(cache, 2) # None
    /\ The(get_current(cache, 2)).date = Some(86400 + 9 * 3600)

-----------------------------------------------------------------------------
(* The planned time, checked under SpecMonths *)

\* the largest number of periods the planned times of the model are ahead
MaxGrid == 8

\* C29: after DONE, SKIP, snooze and REMOVE in any order, the planned time of
\* a reminder with a period is on the grid of its period: the time it was
\* made for plus k periods, for a whole number k >= 0.
C29_OnGrid ==
    \A i \in Ids :
      ExecPeriod(reminder[i].period) # None
      => \E k \in 0..MaxGrid :
           reminder[i].remind_time_planned
             = AddDelta(reminder[i].create_time,
                        RelMul(The(ExecPeriod(reminder[i].period)), k))

\* a reminder made for 31 January with the period of a month is planned for
\* 28 March, which is 31 January plus no number of months
C29_Drifted ==
    \E i \in Ids :
      /\ reminder[i].create_time = DayNumber(0, 1, 31) * 86400
      /\ reminder[i].period = PeriodStr(Some(relativedelta(0, 1, 0, 0, 0)))
      /\ reminder[i].remind_time_planned = DayNumber(0, 3, 28) * 86400
      /\ AddDelta(reminder[i].create_time, relativedelta(0, 2, 0, 0, 0))
           = DayNumber(0, 3, 31) * 86400

-----------------------------------------------------------------------------
(* The stored period, checked under SpecParse *)

\* C30: the period that rewind gets from the stored text is the period that
\* parsePeriod returned for the draft, for every text parsePeriod accepts; and
\* the text stored for a draft without period gives None.
C30_RoundTrip ==
    /\ ExecPeriod(PeriodStr(None)) = None
    /\ lastOp.op = "rewind" => lastOp.out = parsePeriod(Join(lastOp.id)).val

\* the period of 1234567 days has come back as 1234570 days
C30_Rounded ==
    /\ lastOp.op = "rewind"
    /\ lastOp.id = <<<<"1", "2", "3", "4", "5", "6", "7", "d">>>>
    /\ parsePeriod(Join(lastOp.id)).val = Some(relativedelta(0, 0, 1234567, 0, 0))
    /\ lastOp.out = Some(relativedelta(0, 0, 1234570, 0, 0))

====
